---- MODULE Spec2Model ----
(***************************************************************************)
(* Room registry, broadcast and history replay of src/server_qr.py.        *)
(*                                                                         *)
(* One asyncio task runs websocket_endpoint per connection.  A task only   *)
(* yields at an await that really suspends: accept, send_text and          *)
(* receive_text.  rooms_lock is never held across such an await, so        *)
(* `async with rooms_lock` never waits and every action below runs the     *)
(* code from one suspension point to the next.                             *)
(*                                                                         *)
(* send_text hands the frame to the channel when it is called (frames of   *)
(* one channel arrive in call order) and the caller is suspended until     *)
(* the send returns or raises; the outcome is drawn when the call is made. *)
(* No send has a timeout: a send to a peer that stopped reading may never  *)
(* return, and its caller then stays suspended in it.                      *)
(***************************************************************************)
EXTENDS Integers, Sequences, FiniteSets, TLC

Conns == {"c1", "c2", "c3"}
RoomIds == {"rA", "rB"}
\* get_random_topic draws from a pool of nine strings.  Nothing in the
\* registry, the broadcast or the replay depends on which one is drawn.
Topics == {"t1"}
\* ptype of a decoded payload: the three special-cased values and any other.
PTypes == {"generateTheme", "clear", "draw", "other"}
None == "None"

\* MAX_HISTORY = int(os.environ.get("MAX_HISTORY", 5000)): any positive value.
MAX_HISTORY == 2
\* The runs of a specification are cut by its budget (see Budget below).
\* Number of inbound events the whole server accepts in a run.
MaxEvents == 3
\* Number of send_text calls on a still open channel that raise in a run.
MaxFailures == 1
\* Number of send_text calls (topic, replay and broadcast) in a run; a task
\* whose next send would exceed it is not scheduled any more.
MaxSends == 5

VARIABLES
    rooms,             \* rooms: Dict[str, Set[WebSocket]]
    room_topics,       \* room_topics: Dict[str, str]
    room_history,      \* room_history: Dict[str, List[dict]]
    pc,                \* where each connection's task is suspended
    room_id,           \* the room_id path parameter of each connection
    history_snapshot,  \* entries of history_snapshot the replay loop has still to send
    message,           \* broadcast: message
    sender_ws,         \* broadcast: sender_ws (None = nobody excluded)
    sockets,           \* broadcast: entries of sockets the loop has still to visit
    ws,                \* broadcast: the socket whose send_text is pending
    to_remove,         \* broadcast: to_remove
    send_ok,           \* whether the pending send_text returns (TRUE) or raises
    delivered,         \* frames each connection's client has received, in order
    next_id,           \* history variable: number the next accepted event gets
    appended,          \* history variable: ids appended to each room's history since it was created
    failed_to,         \* history variable: connections a send_text to which raised
    failures,          \* history variable: number of sends on an open channel that raised
    sends,             \* history variable: number of send_text calls
    join_history,      \* history variable: room_history[room_id] when registered
    pass_snapshot,     \* history variable: non-excluded members of the running pass
    attempted,         \* history variable: sockets the running pass has called send_text on
    rooms_lock,        \* rooms_lock: the task holding it, None when it is free
    hung,              \* tasks whose pending send_text never returns
    chan_closed,       \* connections whose client has closed or lost the channel
    malformed_at,      \* history variable: next_id when the connection last discarded an undecodable frame, 0 if never
    budget             \* the budget of the run, fixed by the initial state

registry == <<rooms, room_topics, room_history>>
locals == <<history_snapshot, message, sender_ws, sockets, ws, to_remove>>
passvars == <<pass_snapshot, attempted>>
\* What only the client side and the budget change.
channel == <<chan_closed, malformed_at, budget>>
vars == <<rooms, room_topics, room_history, pc, room_id, history_snapshot,
          message, sender_ws, sockets, ws, to_remove, send_ok, delivered,
          next_id, appended, failed_to, failures, sends, join_history, pass_snapshot,
          attempted, rooms_lock, hung, chan_closed, malformed_at, budget>>

----------------------------------------------------------------------------
(* dict and list helpers *)

EmptyDict == [k \in {} |-> k]
Get(d, k, default) == IF k \in DOMAIN d THEN d[k] ELSE default
Put(d, k, v) == [x \in (DOMAIN d) \cup {k} |-> IF x = k THEN v ELSE d[x]]
Pop(d, k) == [x \in (DOMAIN d) \ {k} |-> d[x]]
Range(s) == {s[i] : i \in 1..Len(s)}
Last(s) == s[Len(s)]

\* Iteration order of a set of sockets: one fixed order.
ConnOrder == <<"c1", "c2", "c3">>
ListOf(S) == SelectSeq(ConnOrder, LAMBDA c : c \in S)

\* A frame is either a topic announcement built by the server or a client's
\* payload relayed verbatim.  The server reads a payload's type once, to pick
\* the branch of the receive loop, and never looks into a stored or relayed
\* payload again: id stands for its whole content.  from and room annotate a
\* frame with the connection and the room it was accepted from.
NoFrame == [kind |-> "none", value |-> "-", id |-> 0, from |-> None, room |-> None]
\* {"type": "topic", "value": ...}; id 0 marks the frame sent on join, id n the
\* announcement of the n-th accepted event.
TopicFrame(t, n, c, r) == [kind |-> "topic", value |-> t, id |-> n, from |-> c, room |-> r]
\* A decoded payload of type clear, draw or any other.
Payload(ptype, n, c, r) == [kind |-> "payload", value |-> "-", id |-> n, from |-> c, room |-> r]

----------------------------------------------------------------------------
(* history: append and bound, lines 153-157, 165-168, 177-181, 189-192 *)

Trim_KeepOldest(h) ==
    IF Len(h) > MAX_HISTORY
    THEN SubSeq(h, 1, MAX_HISTORY)
    ELSE h

Trim(h) ==
    IF Len(h) > MAX_HISTORY
    THEN SubSeq(h, Len(h) - MAX_HISTORY + 1, Len(h))
    ELSE h

HistoryAppend(r, entry) ==
    Put(room_history, r, Trim(Append(Get(room_history, r, <<>>), entry)))

----------------------------------------------------------------------------
(* the budget of a run *)

\* events: inbound events accepted; failures: sends on an open channel that
\* raise; sends: send_text calls; hangs: sends that never return; closes:
\* channels the clients close; malformed: connections whose discarded
\* undecodable frames are recorded; topics: the pool get_random_topic draws from.
Budget(e, f, s, h, cl, m, T) ==
    [events |-> e, failures |-> f, sends |-> s, hangs |-> h, closes |-> cl,
     malformed |-> m, topics |-> T]

----------------------------------------------------------------------------
(* rooms_lock *)

\* async with rooms_lock: the task enters the block when the lock is free.
Acquire == rooms_lock = None

\* The holder of rooms_lock when task c reaches its next suspension: every
\* `async with rooms_lock` block is closed before the next await.
LockAtSuspend_Held(c) == c
LockAtSuspend(c) == None

----------------------------------------------------------------------------
(* send_text *)

\* The channel no longer carries frames: the endpoint has returned or the
\* client is gone.
Dead(target) == pc[target] = "closed" \/ target \in chan_closed

\* On a dead channel a send raises.  On an open channel a send returns or
\* raises.
SendOutcomes(target) ==
    IF Dead(target) THEN {FALSE}
    ELSE IF failures < budget.failures THEN BOOLEAN
    ELSE {TRUE}

\* On an open channel whose peer stopped reading a send may never return.
CanHang(target) == ~Dead(target) /\ Cardinality(hung) < budget.hangs

SendText(c, target, frame, via) ==
    /\ sends < budget.sends
    /\ sends' = sends + 1
    /\ \/ \E ok \in SendOutcomes(target) :
            /\ send_ok' = [send_ok EXCEPT ![c] = ok]
            /\ delivered' = IF ok
                            THEN [delivered EXCEPT
                                    ![target] = Append(@, [f |-> frame, via |-> via])]
                            ELSE delivered
            /\ failed_to' = IF ok THEN failed_to ELSE failed_to \cup {target}
            /\ failures' = IF ok \/ Dead(target) THEN failures ELSE failures + 1
            /\ hung' = hung
       \/ /\ CanHang(target)
          /\ hung' = hung \cup {c}
          /\ send_ok' = [send_ok EXCEPT ![c] = TRUE]
          /\ UNCHANGED <<delivered, failed_to, failures>>

NoSendText(c) ==
    /\ send_ok' = [send_ok EXCEPT ![c] = TRUE]
    /\ UNCHANGED <<delivered, failed_to, failures, sends, hung>>

\* The pending send_text of task c has returned or raised.
Resumed(c) == c \notin hung

----------------------------------------------------------------------------
(* websocket_endpoint: join, topic, replay *)

\* The replay loop (lines 122-129) from `entries` on, up to its next send.
ReplayFrom(c, entries) ==
    IF entries = <<>>
    THEN /\ pc' = [pc EXCEPT ![c] = "receive"]
         /\ history_snapshot' = [history_snapshot EXCEPT ![c] = <<>>]
         /\ NoSendText(c)
    ELSE /\ pc' = [pc EXCEPT ![c] = "send_replay"]
         /\ history_snapshot' = [history_snapshot EXCEPT ![c] = Tail(entries)]
         /\ SendText(c, c, Head(entries), "replay")

\* if room_id not in room_topics: room_topics[room_id] = get_random_topic();
\* t is the topic the room has, or the one drawn when it has none.
JoinTopics_Never(r, t) == room_topics
JoinTopics(r, t) == Put(room_topics, r, t)

\* accept returns; lines 96-111 up to the suspension in send_text(topic).
Join(c) ==
    /\ pc[c] = "connecting"
    /\ Acquire
    /\ rooms_lock' = LockAtSuspend(c)
    /\ LET r == room_id[c] IN
       \E t \in (IF r \in DOMAIN room_topics THEN {room_topics[r]} ELSE budget.topics) :
          /\ rooms' = Put(rooms, r, Get(rooms, r, {}) \cup {c})
          /\ room_topics' = JoinTopics(r, t)
          /\ room_history' = Put(room_history, r, Get(room_history, r, <<>>))
          /\ join_history' = [join_history EXCEPT ![c] = Get(room_history, r, <<>>)]
          /\ pc' = [pc EXCEPT ![c] = "send_topic"]
          \* "value": room_topics[room_id] (line 110), read before the task suspends
          /\ SendText(c, c, TopicFrame(Get(JoinTopics(r, t), r, None), 0, None, r), "topic")
          /\ appended' = IF r \in DOMAIN room_history
                         THEN appended
                         ELSE [appended EXCEPT ![r] = <<>>]
    /\ UNCHANGED <<room_id, locals, next_id, passvars, channel>>

\* send_text(topic) returned or raised (caught, line 112); lines 117-125.
TopicResume(c) ==
    /\ pc[c] = "send_topic"
    /\ Resumed(c)
    /\ Acquire
    /\ rooms_lock' = LockAtSuspend(c)
    /\ ReplayFrom(c, Get(room_history, room_id[c], <<>>))
    /\ UNCHANGED <<registry, room_id, message, sender_ws, sockets, ws, to_remove,
                   next_id, appended, join_history, passvars, channel>>

\* send_text(entry) returned, or raised and the loop breaks (line 129).
ReplayResume(c) ==
    /\ pc[c] = "send_replay"
    /\ Resumed(c)
    /\ ReplayFrom(c, IF send_ok[c] THEN history_snapshot[c] ELSE <<>>)
    /\ UNCHANGED <<registry, room_id, message, sender_ws, sockets, ws, to_remove,
                   next_id, appended, join_history, passvars, rooms_lock, channel>>

----------------------------------------------------------------------------
(* the finally block, lines 202-213 *)

\* rooms[room_id].discard(websocket)
LeaveMembers_Keep(r, c) == rooms[r]
LeaveMembers(r, c) == rooms[r] \ {c}

\* The history variables of a connection record its open session only.
Finally(c) ==
    LET r == room_id[c] IN
    /\ Acquire
    /\ rooms_lock' = LockAtSuspend(c)
    /\ pc' = [pc EXCEPT ![c] = "closed"]
    /\ delivered' = [delivered EXCEPT ![c] = <<>>]
    /\ join_history' = [join_history EXCEPT ![c] = <<>>]
    /\ failed_to' = failed_to \ {c}
    /\ send_ok' = [send_ok EXCEPT ![c] = TRUE]
    /\ UNCHANGED <<failures, sends, hung>>
    /\ IF r \in DOMAIN rooms
       THEN IF LeaveMembers(r, c) = {}
            THEN /\ rooms' = Pop(rooms, r)
                 /\ room_topics' = Pop(room_topics, r)
                 /\ room_history' = Pop(room_history, r)
                 /\ appended' = [appended EXCEPT ![r] = <<>>]
            ELSE /\ rooms' = [rooms EXCEPT ![r] = LeaveMembers(r, c)]
                 /\ UNCHANGED <<room_topics, room_history, appended>>
       ELSE UNCHANGED <<rooms, room_topics, room_history, appended>>

ClearLocals(c) ==
    /\ message' = [message EXCEPT ![c] = NoFrame]
    /\ sender_ws' = [sender_ws EXCEPT ![c] = None]
    /\ sockets' = [sockets EXCEPT ![c] = <<>>]
    /\ ws' = [ws EXCEPT ![c] = None]
    /\ to_remove' = [to_remove EXCEPT ![c] = <<>>]
    /\ pass_snapshot' = [pass_snapshot EXCEPT ![c] = {}]
    /\ attempted' = [attempted EXCEPT ![c] = {}]

----------------------------------------------------------------------------
(* broadcast, lines 63-85 *)

\* sockets = list(rooms.get(room_id, []))
Sockets_AllRooms(r) == ListOf(UNION {rooms[x] : x \in DOMAIN rooms})
Sockets(r) == ListOf(Get(rooms, r, {}))

\* if ws is sender_ws: continue
Skip_Never(w, sender) == FALSE
Skip(w, sender) == w = sender

\* The sockets the loop sends to, in iteration order.
Recipients_JoinedOnly(socks, sender) ==
    SelectSeq(socks, LAMBDA w : ~Skip(w, sender) /\ pc[w] \in {"receive", "send_bcast"})
Recipients(socks, sender) == SelectSeq(socks, LAMBDA w : ~Skip(w, sender))

\* What is left of the loop after a send_text raised: the except clause
\* collects the socket and the loop goes on.
AfterSendFailure_Abort(rest) == <<>>
AfterSendFailure(rest) == rest

\* rooms[room_id].discard(ws) for ws in to_remove
Discard(members, rm) == members \ Range(rm)

\* The loop (lines 73-80) at its next send_text, `rest` being the recipients left.
BcastSend(c, rest, rm) ==
    /\ pc' = [pc EXCEPT ![c] = "send_bcast"]
    /\ ws' = [ws EXCEPT ![c] = Head(rest)]
    /\ sockets' = [sockets EXCEPT ![c] = Tail(rest)]
    /\ to_remove' = [to_remove EXCEPT ![c] = rm]
    /\ attempted' = [attempted EXCEPT ![c] = @ \cup {Head(rest)}]

----------------------------------------------------------------------------
(* websocket_endpoint: the receive loop, lines 134-200 *)

\* receive_text raises (WebSocketDisconnect or any other exception), or the
\* payload is not an object and payload.get raises: the task ends through
\* the finally block.
RecvDisconnect(c) ==
    /\ pc[c] = "receive"
    /\ Finally(c)
    /\ UNCHANGED <<room_id, locals, next_id, passvars, channel>>

\* Whether the run records that c discards an undecodable frame.
Recorded(c) == Cardinality({x \in Conns : malformed_at[x] # 0} \cup {c}) <= budget.malformed

\* json.loads raises and the exception leaves the loop.
RecvMalformed_Leaves(c) ==
    /\ pc[c] = "receive"
    /\ c \notin chan_closed
    /\ malformed_at' = IF Recorded(c) THEN [malformed_at EXCEPT ![c] = next_id] ELSE malformed_at
    /\ Finally(c)
    /\ UNCHANGED <<room_id, locals, next_id, passvars, chan_closed, budget>>

\* json.loads raises: continue.
RecvMalformed(c) ==
    /\ pc[c] = "receive"
    /\ c \notin chan_closed
    /\ malformed_at' = IF Recorded(c) THEN [malformed_at EXCEPT ![c] = next_id] ELSE malformed_at
    /\ UNCHANGED <<registry, pc, room_id, locals, send_ok, delivered, next_id, appended,
                   failed_to, failures, sends, join_history, passvars, rooms_lock, hung,
                   chan_closed, budget>>

\* room_topics[room_id] = new_topic
Regenerate_Lost(r, t) == room_topics
Regenerate(r, t) == Put(room_topics, r, t)

\* A payload of type ptype: topic (generateTheme only), history append and
\* broadcast up to its first send_text.
RecvEvent(c, ptype) ==
    /\ pc[c] = "receive"
    /\ c \notin chan_closed
    /\ next_id <= budget.events
    /\ Acquire
    /\ rooms_lock' = LockAtSuspend(c)
    /\ LET r == room_id[c]
           n == next_id
       IN
       \E t \in (IF ptype = "generateTheme" THEN budget.topics ELSE {"-"}) :
          LET msg == IF ptype = "generateTheme"
                     THEN TopicFrame(t, n, c, r)
                     ELSE Payload(ptype, n, c, r)
              sender == IF ptype = "generateTheme" THEN None ELSE c
              recips == Recipients(Sockets(r), sender)
          IN
          /\ room_topics' = IF ptype = "generateTheme"
                            THEN Regenerate(r, t)
                            ELSE room_topics
          /\ room_history' = HistoryAppend(r, msg)
          /\ next_id' = next_id + 1
          /\ appended' = [appended EXCEPT
                            ![r] = IF r \in DOMAIN room_history
                                   THEN Append(@, n)
                                   ELSE <<n>>]
          /\ IF recips = <<>>
             THEN /\ pc' = pc
                  /\ ClearLocals(c)
                  /\ NoSendText(c)
             ELSE /\ message' = [message EXCEPT ![c] = msg]
                  /\ sender_ws' = [sender_ws EXCEPT ![c] = sender]
                  /\ pass_snapshot' = [pass_snapshot EXCEPT ![c] = Range(recips)]
                  /\ BcastSend(c, recips, <<>>)
                  /\ SendText(c, Head(recips), msg, "live")
    /\ UNCHANGED <<rooms, room_id, history_snapshot, join_history, channel>>

\* The pending send_text of a broadcast returned or raised: the rest of the
\* loop, then lines 82-85, then back to receive_text; a KeyError of
\* rooms[room_id] leaves through `except Exception` and the finally block.
BcastResume(c) ==
    /\ pc[c] = "send_bcast"
    /\ Resumed(c)
    /\ LET r == room_id[c]
           rm == IF send_ok[c] THEN to_remove[c] ELSE Append(to_remove[c], ws[c])
           rest == IF send_ok[c] THEN sockets[c] ELSE AfterSendFailure(sockets[c])
       IN
       IF rest # <<>>
       THEN /\ BcastSend(c, rest, rm)
            /\ SendText(c, Head(rest), message[c], "live")
            /\ UNCHANGED <<registry, message, sender_ws, pass_snapshot, join_history,
                           appended, rooms_lock>>
       ELSE /\ ClearLocals(c)
            /\ IF rm = <<>>
               THEN /\ pc' = [pc EXCEPT ![c] = "receive"]
                    /\ NoSendText(c)
                    /\ UNCHANGED <<registry, join_history, appended, rooms_lock>>
               ELSE IF r \in DOMAIN rooms
                    THEN /\ Acquire
                         /\ rooms_lock' = LockAtSuspend(c)
                         /\ rooms' = [rooms EXCEPT ![r] = Discard(@, rm)]
                         /\ pc' = [pc EXCEPT ![c] = "receive"]
                         /\ NoSendText(c)
                         /\ UNCHANGED <<room_topics, room_history, join_history, appended>>
                    ELSE Finally(c)
    /\ UNCHANGED <<room_id, history_snapshot, next_id, channel>>

----------------------------------------------------------------------------
(* the client side of a channel *)

\* The socket on which the pending send_text of task t was called.
PendingTarget(t) == IF pc[t] = "send_bcast" THEN ws[t] ELSE t

\* The client of x closes or loses its channel while the session is open:
\* from then on receive_text of x raises (lines 135, 196-200) and a send to x
\* raises, a send that was waiting for x to read included.
ChannelClose(x) ==
    /\ pc[x] \notin {"connecting", "closed"}
    /\ x \notin chan_closed
    /\ Cardinality(chan_closed) < budget.closes
    /\ chan_closed' = chan_closed \cup {x}
    /\ LET waiting == {t \in hung : PendingTarget(t) = x} IN
       /\ hung' = hung \ waiting
       /\ send_ok' = [t \in Conns |-> IF t \in waiting THEN FALSE ELSE send_ok[t]]
       /\ failed_to' = IF waiting = {} THEN failed_to ELSE failed_to \cup {x}
    /\ UNCHANGED <<registry, pc, room_id, locals, delivered, next_id, appended, failures,
                   sends, join_history, passvars, rooms_lock, malformed_at, budget>>

----------------------------------------------------------------------------

\* The room_id path parameters of the three connections: c1 and c2 share a
\* room; c3 joins them or is alone in the other room.
TwoRooms == {f \in [Conns -> RoomIds] : f["c1"] = "rA" /\ f["c2"] = "rA"}
OneRoom == {[c \in Conns |-> "rA"]}

InitWith(b, paths) ==
    /\ budget = b
    /\ rooms_lock = None
    /\ hung = {}
    /\ chan_closed = {}
    /\ malformed_at = [c \in Conns |-> 0]
    /\ rooms = EmptyDict
    /\ room_topics = EmptyDict
    /\ room_history = EmptyDict
    /\ pc = [c \in Conns |-> "connecting"]
    /\ room_id \in paths
    /\ history_snapshot = [c \in Conns |-> <<>>]
    /\ message = [c \in Conns |-> NoFrame]
    /\ sender_ws = [c \in Conns |-> None]
    /\ sockets = [c \in Conns |-> <<>>]
    /\ ws = [c \in Conns |-> None]
    /\ to_remove = [c \in Conns |-> <<>>]
    /\ send_ok = [c \in Conns |-> TRUE]
    /\ delivered = [c \in Conns |-> <<>>]
    /\ next_id = 1
    /\ appended = [r \in RoomIds |-> <<>>]
    /\ failed_to = {}
    /\ failures = 0
    /\ sends = 0
    /\ join_history = [c \in Conns |-> <<>>]
    /\ pass_snapshot = [c \in Conns |-> {}]
    /\ attempted = [c \in Conns |-> {}]

Next ==
    \E c \in Conns :
        \/ Join(c)
        \/ TopicResume(c)
        \/ ReplayResume(c)
        \/ RecvDisconnect(c)
        \/ RecvMalformed(c)
        \/ \E ptype \in PTypes : RecvEvent(c, ptype)
        \/ BcastResume(c)

\* Runs in which every send returns or raises, no client-side close is told
\* apart from any other end of receive_text, and discarded frames leave no
\* record.
Init == InitWith(Budget(MaxEvents, MaxFailures, MaxSends, 0, 0, 0, Topics), TwoRooms)

Spec == Init /\ [][Next]_vars

\* Runs of one room in which a send may never return and a client may close
\* its channel at any point of its session.  No task is stopped by the budget of sends:
\* the cap is the number of sends the joins, replays and passes of the
\* accepted events can make at most.
HungEvents == 1
HungFailures == 0
MaxHangs == 1
MaxCloses == 1
NoSendCap(e) == Cardinality(Conns) * (1 + MAX_HISTORY + e)
InitHung ==
    InitWith(Budget(HungEvents, HungFailures, NoSendCap(HungEvents), MaxHangs, MaxCloses,
                    0, Topics), OneRoom)

NextHung ==
    \/ Next
    \/ \E x \in Conns : ChannelClose(x)

\* The event loop runs every task whose await has completed: a task whose
\* accept or send_text has returned or raised takes its next step, and
\* receive_text on a channel the client has closed raises.
Fairness ==
    \A c \in Conns :
        /\ WF_vars(Join(c))
        /\ WF_vars(TopicResume(c))
        /\ WF_vars(ReplayResume(c))
        /\ WF_vars(BcastResume(c))
        /\ WF_vars(c \in chan_closed /\ RecvDisconnect(c))

SpecHung == InitHung /\ [][NextHung]_vars /\ Fairness

\* Runs of one room that record the undecodable frames a connection discards.
MalformedEvents == 2
MalformedFailures == 0
MalformedSends == 4
MaxMalformed == 1
InitMalformed ==
    InitWith(Budget(MalformedEvents, MalformedFailures, MalformedSends, 0, 0,
                    MaxMalformed, Topics), OneRoom)

SpecMalformed == InitMalformed /\ [][Next]_vars

\* Runs of one room in which get_random_topic draws from two topics.
TopicPool == {"t1", "t2"}
TopicEvents == 2
TopicFailures == 1
TopicSends == 4
InitTopics ==
    InitWith(Budget(TopicEvents, TopicFailures, TopicSends, 0, 0, 0, TopicPool), OneRoom)

SpecTopics == InitTopics /\ [][Next]_vars

----------------------------------------------------------------------------
(* Properties *)

Members(r) == Get(rooms, r, {})
Min(a, b) == IF a < b THEN a ELSE b
\* Positions of delivered[c] holding the frame of accepted event n.
Copies(c, n) == {i \in 1..Len(delivered[c]) : delivered[c][i].f.id = n}
LiveCopies(c, n) == {i \in Copies(c, n) : delivered[c][i].via = "live"}
ReplayDone(c) == pc[c] \in {"receive", "send_bcast"}
\* The broadcast pass of c ends in this step.
PassEnds(c) == pc[c] = "send_bcast" /\ pc'[c] # "send_bcast"
\* Sockets whose send_text raised in the pass of c, its pending send included.
PassFailures(c) == Range(to_remove[c]) \cup (IF send_ok[c] THEN {} ELSE {ws[c]})

\* C1: a connection that joined a room after e1..en were accepted, and to
\* which every send succeeded, has received one topic frame, then e1..en as
\* replay frames in accepted order, and only then frames of live broadcasts.
C1_ReplayBeforeLive ==
    \A c \in Conns :
        (ReplayDone(c) /\ c \notin failed_to) =>
            LET d == delivered[c]
                n == Len(join_history[c])
            IN
            /\ Len(d) >= n + 1
            /\ d[1].via = "topic"
            /\ \A i \in 1..n : d[i + 1].via = "replay" /\ d[i + 1].f = join_history[c][i]
            /\ \A i \in (n + 2)..Len(d) : d[i].via = "live"

\* C2: a join to a room whose member set is empty finds no topic entry for
\* the room (the topic is drawn at that join) and leaves its history empty.
C2_FreshRoomAfterEmpty ==
    [][\A c \in Conns :
          (pc[c] = "connecting" /\ pc'[c] = "send_topic" /\ Members(room_id[c]) = {}) =>
              /\ room_id[c] \notin DOMAIN room_topics
              /\ room_history'[room_id[c]] = <<>>]_vars

\* C3: a room id has an entry in rooms, room_topics or room_history if and
\* only if its member set is non-empty.
C3_RegistryIffMembers ==
    \A r \in RoomIds :
        (r \in DOMAIN rooms \/ r \in DOMAIN room_topics \/ r \in DOMAIN room_history)
            <=> Members(r) # {}

\* C4: a room's history never has more than MAX_HISTORY entries and is the
\* last MAX_HISTORY events appended to it since it was created, in the order
\* they were accepted.
C4_BoundedFifoHistory ==
    \A r \in DOMAIN room_history :
        LET h == room_history[r]
            a == appended[r]
        IN
        /\ Len(h) <= MAX_HISTORY
        /\ Len(h) = Min(Len(a), MAX_HISTORY)
        /\ \A i \in 1..Len(h) : h[i].id = a[Len(a) - Len(h) + i]

C4_Witness ==
    \E r \in DOMAIN room_history :
        /\ Members(r) # {}
        /\ Len(appended[r]) > MAX_HISTORY
        /\ \E i, j \in 1..Len(room_history[r]) :
              room_history[r][i].kind = "topic" /\ room_history[r][j].kind = "payload"

\* C5: every frame delivered to a connection (topic on join, replay or live
\* broadcast) comes from the room the connection joined.
C5_RoomIsolation ==
    \A c \in Conns :
        \A i \in 1..Len(delivered[c]) : delivered[c][i].f.room = room_id[c]

C5_Witness ==
    \E c, d \in Conns :
        /\ room_id[c] # room_id[d]
        /\ \E i \in 1..Len(delivered[c]) :
              delivered[c][i].via = "live" /\ delivered[c][i].f.from # c
        /\ \E j \in 1..Len(delivered[d]) : delivered[d][j].f.id > 0

\* C6: an accepted clear, draw or other payload is the last entry of the
\* sender's room history, its broadcast pass goes to the members of the room
\* other than the sender, and no connection ever receives its own payload.
C6_NoEcho ==
    [][/\ \A c \in Conns :
             \A i \in 1..Len(delivered'[c]) :
                 delivered'[c][i].f.kind = "payload" => delivered'[c][i].f.from # c
       /\ next_id' # next_id =>
             \E c \in Conns :
                 LET r == room_id[c]
                     h == Get(room_history', r, <<>>)
                 IN
                 /\ pc[c] = "receive"
                 /\ h # <<>>
                 /\ Last(h).id = next_id
                 /\ Last(h).from = c
                 /\ Last(h).kind = "payload" =>
                       IF Members(r) \ {c} = {}
                       THEN pc'[c] = "receive"
                       ELSE /\ pc'[c] = "send_bcast"
                            /\ pass_snapshot'[c] = Members(r) \ {c}
                            /\ message'[c] = Last(h)]_vars

C6_Witness ==
    \E c, d \in Conns :
        /\ c # d
        /\ pc[c] = "receive"
        /\ \E i \in 1..Len(delivered[d]) :
              /\ delivered[d][i].via = "live"
              /\ delivered[d][i].f.kind = "payload"
              /\ delivered[d][i].f.from = c

\* C7: a connection that was a member when a generateTheme event was accepted
\* (it gets the announcement from the broadcast) receives that announcement
\* exactly once: every member to which sends succeed has it when the pass
\* ends, and nobody who got it from the broadcast ever has a second copy.
C7_TopicExactlyOnce ==
    [][\A c \in Conns :
          /\ \A n \in 1..MaxEvents :
                (LiveCopies(c, n) # {} /\ delivered[c][CHOOSE i \in LiveCopies(c, n) : TRUE].f.kind = "topic")
                    => Cardinality(Copies(c, n)) = 1
          /\ (PassEnds(c) /\ message[c].kind = "topic") =>
                \A m \in pass_snapshot[c] \ PassFailures(c) :
                    pc[m] # "closed" => Cardinality(Copies(m, message[c].id)) = 1]_vars

\* C8: when a send of a broadcast pass fails, the pass has still called
\* send_text on every non-excluded member of its snapshot by the time it ends,
\* the failing sockets are then in no member set of the room, and a socket is
\* only ever added to a member set by its own join.
C8_FailureIsolation ==
    [][\A c \in Conns :
          /\ PassEnds(c) =>
                /\ attempted[c] = pass_snapshot[c]
                /\ PassFailures(c) \cap Members(room_id[c])' = {}
          /\ \A r \in RoomIds :
                (c \in Members(r)' /\ c \notin Members(r)) => pc[c] = "connecting"]_vars

C8_Witness ==
    \E c \in Conns :
        /\ pc[c] = "send_bcast"
        /\ to_remove[c] # <<>>
        /\ send_ok[c]
        /\ ws[c] \notin Range(to_remove[c])
        /\ sender_ws[c] = c

\* C9: a connection that receives two events of its room live receives them
\* in the order they were accepted (the order of their ids and of the
\* history).
C9_LiveOrderMatchesHistory ==
    \A c \in Conns :
        \A i, j \in 1..Len(delivered[c]) :
            (i < j /\ delivered[c][i].via = "live" /\ delivered[c][j].via = "live")
                => delivered[c][i].f.id < delivered[c][j].f.id

\* C10: when the topic send or a replay send of a joining connection has
\* raised, the next step of its task closes the session and deregisters it.
C10_ReplayFailureLeaves ==
    [][\A c \in Conns :
          (pc[c] \in {"send_topic", "send_replay"} /\ ~send_ok[c] /\ pc'[c] # pc[c]) =>
              /\ pc'[c] = "closed"
              /\ c \notin Members(room_id[c])']_vars

\* C11: a broadcast never fails its caller: when a pass ends, whatever sends
\* raised and whether or not the room is still registered when the failed
\* sockets are deregistered, the caller's task is back in its receive loop.
C11_BroadcastNeverFailsCaller ==
    [][\A c \in Conns : PassEnds(c) => pc'[c] = "receive"]_vars

\* C12: a recipient whose send never returns delays no other recipient.  A
\* pass suspended for ever in its send to H delivers nothing more, so the
\* claim needs that by then the pass has called send_text on every member M
\* of its snapshot that has an open channel and has taken its replay snapshot
\* (such an M gets the message from this pass or not at all).
C12_HungDelaysNobody ==
    \A c \in hung :
        pc[c] = "send_bcast" =>
            \A m \in pass_snapshot[c] :
                (ReplayDone(m) /\ ~Dead(m)) => m \in attempted[c]

\* C13: an inbound frame that does not decode is discarded: the session
\* stays in its receive loop, no room's members, topic or history change, no
\* frame is sent to anyone, no task moves, and the connection's next frame is
\* processed from the same state.
C13_MalformedDiscarded ==
    [][\A c \in Conns :
          malformed_at'[c] # malformed_at[c] =>
              /\ pc[c] = "receive"
              /\ pc' = pc
              /\ UNCHANGED <<registry, delivered, sends, failed_to, next_id, locals,
                             send_ok, rooms_lock>>]_vars

\* c accepted an event after it had discarded an undecodable frame.
C13_Witness ==
    \E c \in Conns :
        /\ malformed_at[c] # 0
        /\ pc[c] = "send_bcast"
        /\ message[c].from = c
        /\ message[c].id >= malformed_at[c]

C15_MembersHaveTopic ==
    /\ \A r \in DOMAIN rooms : rooms[r] # {} => r \in DOMAIN room_topics
    /\ \A c \in Conns :
          \A i \in 1..Len(delivered[c]) :
              delivered[c][i].via = "topic" => delivered[c][i].f.value \in budget.topics

\* A room that keeps its topic while a member has left and another, who got
\* the topic on joining, stays.
C15_Witness ==
    \E c, d \in Conns :
        /\ room_id[c] = room_id[d]
        /\ pc[c] = "closed"
        /\ d \in Members(room_id[d])
        /\ room_id[d] \in DOMAIN room_topics
        /\ delivered[d] # <<>>
        /\ delivered[d][1].via = "topic"

\* C16: the history snapshot replayed to a joining connection is the room's
\* history at the instant the connection was registered, and no event
\* reaches a connection both as a replay frame and as a live frame.
C16_SnapshotAtRegistration ==
    [][\A c \in Conns :
          /\ (pc[c] = "send_topic" /\ pc'[c] # "send_topic") =>
                Get(room_history, room_id[c], <<>>) = join_history[c]
          /\ \A i, j \in 1..Len(delivered'[c]) :
                (delivered'[c][i].via = "replay" /\ delivered'[c][j].via = "live")
                    => delivered'[c][i].f.id # delivered'[c][j].f.id]_vars

\* C17: whenever the channel of a connection closes or errors, at any point
\* of its session, its task eventually goes through the finally block: the
\* session is closed and the connection is in no room's member set.
C17_CloseLeadsToLeaving ==
    \A c \in Conns :
        (c \in chan_closed) ~> (pc[c] = "closed" /\ \A r \in RoomIds : c \notin Members(r))

\* C18: no accepted event is lost to a joiner.  For a connection j that has
\* taken its replay snapshot, is still a member and to which every send
\* succeeded, every event of another sender in the room's history (an event
\* is there from its acceptance until the bound evicts it) has been
\* delivered to j or is the message of a running pass that has j still to
\* visit.
C18_NoEventLostToJoiner ==
    \A j \in Conns :
        (ReplayDone(j) /\ j \notin failed_to /\ j \in Members(room_id[j])) =>
            LET h == Get(room_history, room_id[j], <<>>) IN
            \A i \in 1..Len(h) :
                h[i].from # j =>
                    \/ Copies(j, h[i].id) # {}
                    \/ \E b \in Conns :
                          /\ pc[b] = "send_bcast"
                          /\ message[b] = h[i]
                          /\ j \in Range(sockets[b])

\* j has one event of another sender from the replay and a later one from a
\* live broadcast, both still in the history.
C18_Witness ==
    \E j \in Conns :
        /\ ReplayDone(j) /\ j \notin failed_to /\ j \in Members(room_id[j])
        /\ \E a, b \in 1..Len(delivered[j]) :
              /\ delivered[j][a].via = "replay"
              /\ delivered[j][b].via = "live"
              /\ delivered[j][a].f.from # j
              /\ delivered[j][b].f.from # j
              /\ delivered[j][a].f.id < delivered[j][b].f.id
              /\ {delivered[j][a].f, delivered[j][b].f} \subseteq Range(room_history[room_id[j]])

\* C19: no closed connection is in a member set, and a connection that was
\* removed from a member set, by its own leave or by an eviction, is never
\* added back: a task never returns to the point before its registration,
\* and past that point no step adds its connection to a member set.
C19_RemovedStaysRemoved ==
    [][\A c \in Conns :
          /\ pc'[c] = "closed" => \A r \in RoomIds : c \notin Members(r)'
          /\ pc[c] # "connecting" =>
                /\ pc'[c] # "connecting"
                /\ \A r \in RoomIds : c \in Members(r)' => c \in Members(r)]_vars

\* c was evicted and its task still runs; d has left a room that still has
\* members.
C19_Witness ==
    \E c, d \in Conns :
        /\ pc[c] \in {"receive", "send_bcast"}
        /\ c \notin Members(room_id[c])
        /\ pc[d] = "closed"
        /\ Members(room_id[d]) # {}

\* Positions of the topic announcements in a history.
Announcements(h) == {i \in 1..Len(h) : h[i].kind = "topic"}
Max(S) == CHOOSE x \in S : \A y \in S : y <= x

\* C20: no topic update is lost: in a registered room whose history holds a
\* topic announcement, the current topic is the value of the last one.
C20_TopicIsLastAnnouncement ==
    \A r \in DOMAIN rooms :
        LET h == Get(room_history, r, <<>>) IN
        Announcements(h) # {} =>
            /\ r \in DOMAIN room_topics
            /\ room_topics[r] = h[Max(Announcements(h))].value

\* Two connections regenerated the topic with different values, the second
\* while the pass of the first was still running.
C20_Witness ==
    \E r \in DOMAIN rooms :
        LET h == Get(room_history, r, <<>>) IN
        /\ Len(h) = 2
        /\ Announcements(h) = {1, 2}
        /\ h[1].value # h[2].value
        /\ h[1].from # h[2].from
        /\ pc[h[1].from] = "send_bcast"
        /\ message[h[1].from] = h[1]

====
